---------------------------- MODULE Spec2Model ----------------------------
(***************************************************************************)
(* PrivacyGuard (src/privacy_guard.py): span reconciliation, placeholder   *)
(* substitution and restoration.                                           *)
(*                                                                         *)
(* Texts are TLA+ strings.  A match is the tuple the code builds,          *)
(* <<start, end, label, content>>, with 0-based half-open offsets as in    *)
(* Python.  A dict is a sequence of <<key, value>> pairs in insertion      *)
(* order (Python dicts iterate in insertion order).                        *)
(***************************************************************************)
EXTENDS Integers, Sequences, FiniteSets, TLC

VARIABLES
    phase,              \* "ready", "anonymized", "round_trip", "restored"
    text,               \* argument of the last anonymize call
    regex_matches,      \* detect_pii_regex(text)
    ner_matches,        \* detect_pii_ner(text, language)
    filtered_matches,   \* anonymize: accepted spans
    sanitized_parts,    \* anonymize: parts joined into the sanitized text
    mapping_table,      \* the table returned by anonymize / given to restore
    sanitized_text,     \* the text returned by anonymize / given to restore
    restored_text,      \* the value returned by restore
    calls,              \* call id -> the locals of an anonymize call in progress
    counts              \* scope -> the per-label counters of an anonymize call

vars == <<phase, text, regex_matches, ner_matches, filtered_matches,
          sanitized_parts, mapping_table, sanitized_text, restored_text,
          calls, counts>>

-----------------------------------------------------------------------------
(* Bounds of the model *)

\* most spans the two detectors return together for one text
MaxSpans == 3
\* most entries of a table handed to restore by a caller
MaxTable == 2
\* most entities the NER pipeline returns to one of two interleaved calls
MaxCallSpans == 2
\* most spans of one text when the NER pipeline reports unchecked offsets
MaxRaw == 2

-----------------------------------------------------------------------------
(* Python built-ins the code relies on *)

Min(a, b) == IF a <= b THEN a ELSE b
Max(a, b) == IF a >= b THEN a ELSE b

\* slice index normalisation: a negative index counts from the end, and
\* the result is clamped to [0, n]
PyIndex(i, n) == IF i < 0 THEN Max(i + n, 0) ELSE Min(i, n)

\* s[a:b]
PySlice(s, a, b) ==
    LET lo == PyIndex(a, Len(s))
        hi == PyIndex(b, Len(s))
    IN  IF lo >= hi THEN "" ELSE SubSeq(s, lo + 1, hi)

\* s[a:]
PySliceFrom(s, a) == PySlice(s, a, Len(s))

\* "".join(parts)
RECURSIVE Join(_)
Join(parts) ==
    IF parts = <<>> THEN "" ELSE Head(parts) \o Join(Tail(parts))

\* s.startswith(sub, i) for 0 <= i <= len(s)
StartsWithAt(s, sub, i) ==
    /\ i + Len(sub) <= Len(s)
    /\ SubSeq(s, i + 1, i + Len(sub)) = sub

\* s.find(sub, i): the lowest offset >= i at which sub occurs, or -1
Find(s, sub, i) ==
    LET hits == {j \in i..(Len(s) - Len(sub)) : StartsWithAt(s, sub, j)}
    IN  IF hits = {} THEN -1
        ELSE CHOOSE j \in hits : \A k \in hits : j <= k

\* s.replace(old, new) from offset i on: every non-overlapping occurrence,
\* leftmost first; an empty old matches before every character and at the end
RECURSIVE ReplaceFrom(_, _, _, _)
ReplaceFrom(s, old, new, i) ==
    IF old = ""
    THEN IF i >= Len(s) THEN new
         ELSE new \o SubSeq(s, i + 1, i + 1) \o ReplaceFrom(s, old, new, i + 1)
    ELSE LET j == Find(s, old, i)
         IN  IF j = -1 THEN SubSeq(s, i + 1, Len(s))
             ELSE SubSeq(s, i + 1, j) \o new
                  \o ReplaceFrom(s, old, new, j + Len(old))

Replace(s, old, new) == ReplaceFrom(s, old, new, 0)

\* sub in s
Occurs(s, sub) == Find(s, sub, 0) # -1

\* dict lookups and stores on a sequence of <<key, value>> pairs
DictKeys(d) == [i \in 1..Len(d) |-> d[i][1]]
DictKeySet(d) == {d[i][1] : i \in 1..Len(d)}
DictGet(d, k) == d[CHOOSE i \in 1..Len(d) : d[i][1] = k][2]
DictSet(d, k, v) ==
    IF k \in DictKeySet(d)
    THEN [i \in 1..Len(d) |-> IF d[i][1] = k THEN <<k, v>> ELSE d[i]]
    ELSE Append(d, <<k, v>>)

-----------------------------------------------------------------------------
(* Matches *)

Start(m) == m[1]
End(m) == m[2]
Label(m) == m[3]
Content(m) == m[4]

\* mutant: an insertion that puts a span before the spans of equal start
\* (an unstable sort)
RECURSIVE InsertBeforeEqual(_, _)
InsertBeforeEqual(sorted, m) ==
    IF sorted = <<>> THEN <<m>>
    ELSE IF Start(Head(sorted)) < Start(m)
         THEN <<Head(sorted)>> \o InsertBeforeEqual(Tail(sorted), m)
         ELSE <<m>> \o sorted

\* sorted(xs, key=lambda x: x[0]): stable, ascending
RECURSIVE InsertByStart(_, _)
InsertByStart(sorted, m) ==
    IF sorted = <<>> THEN <<m>>
    ELSE IF Start(Head(sorted)) <= Start(m)
         THEN <<Head(sorted)>> \o InsertByStart(Tail(sorted), m)
         ELSE <<m>> \o sorted

RECURSIVE SortedByStartFrom(_, _)
SortedByStartFrom(done, rest) ==
    IF rest = <<>> THEN done
    ELSE SortedByStartFrom(InsertByStart(done, Head(rest)), Tail(rest))

SortedByStart(xs) == SortedByStartFrom(<<>>, xs)

\* all_matches = sorted(regex_matches + ner_matches, key=lambda x: x[0])
all_matches_of(regex, ner) == SortedByStart(regex \o ner)

\* mutant: the end offset taken as inclusive
AcceptsOffByOne(start, last_end) == start >= last_end - 1

\* the acceptance test of the overlap filter
Accepts(start, last_end) == start >= last_end

\* mutant: a filter that never updates last_end
RECURSIVE FilterFromStale(_, _, _)
FilterFromStale(accepted, last_end, rest) ==
    IF rest = <<>> THEN accepted
    ELSE LET m == Head(rest)
         IN  IF Start(m) >= last_end
             THEN FilterFromStale(Append(accepted, m), last_end, Tail(rest))
             ELSE FilterFromStale(accepted, last_end, Tail(rest))

\* the overlap filter: one pass with last_end, starting at -1
RECURSIVE FilterFrom(_, _, _)
FilterFrom(accepted, last_end, rest) ==
    IF rest = <<>> THEN accepted
    ELSE LET m == Head(rest)
         IN  IF Accepts(Start(m), last_end)
             THEN FilterFrom(Append(accepted, m), End(m), Tail(rest))
             ELSE FilterFrom(accepted, last_end, Tail(rest))

filtered_matches_of(all) == FilterFrom(<<>>, -1, all)

-----------------------------------------------------------------------------
(* Substitution *)

\* mutant: a placeholder without its counter
PlaceholderNoCount(label, n) == "<" \o label \o ">"

\* f"<{label}_{n}>"
Placeholder(label, n) == "<" \o label \o "_" \o ToString(n) \o ">"

\* mutant: a counter that is not incremented on a label's first occurrence
BumpFromZero(cnt, label) ==
    IF label \in DOMAIN cnt
    THEN [cnt EXCEPT ![label] = cnt[label] + 1]
    ELSE (label :> 0) @@ cnt

\* counts[label] after "if label not in counts: counts[label] = 0;
\* counts[label] += 1"
Bump(cnt, label) ==
    IF label \in DOMAIN cnt
    THEN [cnt EXCEPT ![label] = cnt[label] + 1]
    ELSE (label :> 1) @@ cnt

\* the locals of the substitution loop before its first iteration
InitLocals ==
    [mapping_table |-> <<>>, sanitized_parts |-> <<>>, current_idx |-> 0,
     counts |-> <<>>]

\* one iteration of the substitution loop on match m
SubstituteStep(t, loc, m) ==
    LET cnt == Bump(loc.counts, Label(m))
        placeholder == Placeholder(Label(m), cnt[Label(m)])
    IN  [mapping_table |-> DictSet(loc.mapping_table, placeholder, Content(m)),
         sanitized_parts |->
             loc.sanitized_parts \o <<PySlice(t, loc.current_idx, Start(m)),
                                      placeholder>>,
         current_idx |-> End(m),
         counts |-> cnt]

RECURSIVE SubstituteFrom(_, _, _)
SubstituteFrom(t, loc, rest) ==
    IF rest = <<>> THEN loc
    ELSE SubstituteFrom(t, SubstituteStep(t, loc, Head(rest)), Tail(rest))

\* the parts list once the remaining text is appended
FinalParts(t, loc) ==
    Append(loc.sanitized_parts, PySliceFrom(t, loc.current_idx))

\* anonymize from the detectors' outputs on: its locals at the return
anonymize(t, regex, ner) ==
    LET filtered == filtered_matches_of(all_matches_of(regex, ner))
        loc == SubstituteFrom(t, InitLocals, filtered)
        parts == FinalParts(t, loc)
    IN  [filtered_matches |-> filtered,
         sanitized_parts |-> parts,
         sanitized_text |-> Join(parts),
         mapping_table |-> loc.mapping_table]

-----------------------------------------------------------------------------
(* Restoration *)

\* mutant: keys sorted by ascending length
RECURSIVE InsertByLenAsc(_, _)
InsertByLenAsc(sorted, k) ==
    IF sorted = <<>> THEN <<k>>
    ELSE IF Len(Head(sorted)) <= Len(k)
         THEN <<Head(sorted)>> \o InsertByLenAsc(Tail(sorted), k)
         ELSE <<k>> \o sorted

\* sorted(keys, key=len, reverse=True): stable, descending
RECURSIVE InsertByLenDesc(_, _)
InsertByLenDesc(sorted, k) ==
    IF sorted = <<>> THEN <<k>>
    ELSE IF Len(Head(sorted)) >= Len(k)
         THEN <<Head(sorted)>> \o InsertByLenDesc(Tail(sorted), k)
         ELSE <<k>> \o sorted

RECURSIVE SortedByLenDescFrom(_, _)
SortedByLenDescFrom(done, rest) ==
    IF rest = <<>> THEN done
    ELSE SortedByLenDescFrom(InsertByLenDesc(done, Head(rest)), Tail(rest))

sorted_keys(table) == SortedByLenDescFrom(<<>>, DictKeys(table))

RECURSIVE RestoreFrom(_, _, _)
RestoreFrom(restored, table, keys) ==
    IF keys = <<>> THEN restored
    ELSE RestoreFrom(Replace(restored, Head(keys), DictGet(table, Head(keys))),
                     table, Tail(keys))

restore(sanitized, table) == RestoreFrom(sanitized, table, sorted_keys(table))

-----------------------------------------------------------------------------
(* Detectors *)

\* the labels of _compile_regex_patterns, in the dict's order
RegexLabels == <<"EMAIL", "PHONE", "IBAN">>

\* the entity groups the NER pipeline reports in the model
NerLabels == {"PER"}

\* detect_pii_regex: for each label in the dict's order, one match per
\* finditer hit, with match.group() as content; found[i] is the list of
\* <<start, end>> hits of the pattern of RegexLabels[i]
RECURSIVE RegexMatchesFrom(_, _, _)
RegexMatchesFrom(t, found, i) ==
    IF i > Len(RegexLabels) THEN <<>>
    ELSE [k \in 1..Len(found[i]) |->
             <<found[i][k][1], found[i][k][2], RegexLabels[i],
               PySlice(t, found[i][k][1], found[i][k][2])>>]
         \o RegexMatchesFrom(t, found, i + 1)

detect_pii_regex(t, found) == RegexMatchesFrom(t, found, 1)

\* detect_pii_ner: one match per entity of the pipeline's result, its
\* content sliced from the input text.  The language argument only selects
\* the pipeline (an unsupported one falls back to "en"); ner_results is what
\* the selected pipeline returned.
detect_pii_ner(t, ner_results) ==
    [k \in 1..Len(ner_results) |->
        <<ner_results[k].start, ner_results[k].end,
          ner_results[k].entity_group,
          PySlice(t, ner_results[k].start, ner_results[k].end)>>]

-----------------------------------------------------------------------------
(* Inputs: texts as token lists, detector hits on token boundaries *)

TokenTexts == { <<"ab", "c", "ab">>, <<"<PER_1>", " ", "Ann">> }

\* the offsets at which a token of the text starts or ends
Boundaries(tokens) == {Len(Join(SubSeq(tokens, 1, k))) : k \in 0..Len(tokens)}

\* the half-open intervals between two boundaries
Intervals(tokens) ==
    {iv \in Boundaries(tokens) \X Boundaries(tokens) : iv[1] < iv[2]}

\* the elements of a set of intervals in ascending order of start
RECURSIVE Ascending(_)
Ascending(S) ==
    IF S = {} THEN <<>>
    ELSE LET lo == CHOOSE x \in S : \A y \in S : x[1] <= y[1]
         IN  <<lo>> \o Ascending(S \ {lo})

\* what finditer can yield for one pattern: hits in ascending order that do
\* not overlap
FinditerResults(tokens) ==
    {Ascending(S) : S \in {X \in SUBSET Intervals(tokens) :
        \A a, b \in X : a = b \/ a[2] <= b[1] \/ b[2] <= a[1]}}

\* the hits of all patterns, at most n together
RegexFinds(tokens, n) ==
    {f \in [1..Len(RegexLabels) -> FinditerResults(tokens)] :
        Len(f[1]) + Len(f[2]) + Len(f[3]) <= n}

NumFound(found) == Len(found[1]) + Len(found[2]) + Len(found[3])

\* the sequences over S of length at most n
SeqsUpTo(S, n) == UNION {[1..k -> S] : k \in 0..n}

\* the entities a pipeline reports: any order, overlaps allowed
Entities(tokens) ==
    {[start |-> iv[1], end |-> iv[2], entity_group |-> l] :
        iv \in Intervals(tokens), l \in NerLabels}

\* entities with offsets the text does not have, or start >= end
RawOffsets(tokens) ==
    Boundaries(tokens) \cup {-1, Len(Join(tokens)) + 1}

RawEntities(tokens) ==
    {[start |-> a, end |-> b, entity_group |-> l] :
        a \in RawOffsets(tokens), b \in RawOffsets(tokens), l \in NerLabels}

-----------------------------------------------------------------------------
(* Callers of restore *)

\* the tokens of a text handed to restore by a caller
RestoreTokens == {"<PER_1>", "<PER_10>", " met "}

\* most tokens of such a text
MaxTokens == 3

TableKeys == {"<PER_1>", "<PER_10>", "<PER_2>"}
TableValues == {"Ann", "Bob", "<PER_1>"}

\* dicts of at most n entries: distinct keys, any insertion order
Tables(n) ==
    {d \in SeqsUpTo(TableKeys \X TableValues, n) :
        \A i, j \in 1..Len(d) : i # j => d[i][1] # d[j][1]}

-----------------------------------------------------------------------------
(* The state machine *)

Init ==
    /\ phase = "ready"
    /\ text = ""
    /\ regex_matches = <<>>
    /\ ner_matches = <<>>
    /\ filtered_matches = <<>>
    /\ sanitized_parts = <<>>
    /\ mapping_table = <<>>
    /\ sanitized_text = ""
    /\ restored_text = ""
    /\ calls = <<>>
    /\ counts = <<>>

\* anonymize(text) with the given detector outputs
AnonymizeWith(t, regex, ner) ==
    LET r == anonymize(t, regex, ner)
    IN  /\ phase' = "anonymized"
        /\ text' = t
        /\ regex_matches' = regex
        /\ ner_matches' = ner
        /\ filtered_matches' = r.filtered_matches
        /\ sanitized_parts' = r.sanitized_parts
        /\ sanitized_text' = r.sanitized_text
        /\ mapping_table' = r.mapping_table
        /\ UNCHANGED <<restored_text, calls, counts>>

\* anonymize(text): the detectors report well-formed spans
Anonymize ==
    /\ phase = "ready"
    /\ \E tokens \in TokenTexts :
         \E found \in RegexFinds(tokens, MaxSpans) :
           \E ner_results \in SeqsUpTo(Entities(tokens), MaxSpans - NumFound(found)) :
               AnonymizeWith(Join(tokens),
                             detect_pii_regex(Join(tokens), found),
                             detect_pii_ner(Join(tokens), ner_results))

\* restore(sanitized_text, mapping_table) on what anonymize returned
Restore ==
    /\ phase = "anonymized"
    /\ phase' = "round_trip"
    /\ restored_text' = restore(sanitized_text, mapping_table)
    /\ UNCHANGED <<text, regex_matches, ner_matches, filtered_matches,
                   sanitized_parts, mapping_table, sanitized_text, calls,
                   counts>>

\* restore(t, table) called with a text and a table of the caller's
RestoreCall ==
    /\ phase = "ready"
    /\ \E tokens \in SeqsUpTo(RestoreTokens, MaxTokens), table \in Tables(MaxTable) :
        /\ phase' = "restored"
        /\ sanitized_text' = Join(tokens)
        /\ mapping_table' = table
        /\ restored_text' = restore(Join(tokens), table)
        /\ UNCHANGED <<text, regex_matches, ner_matches, filtered_matches,
                       sanitized_parts, calls, counts>>

Next == Anonymize \/ Restore \/ RestoreCall

Spec == Init /\ [][Next]_vars

-----------------------------------------------------------------------------
(* anonymize when the NER pipeline's offsets are taken as reported *)

\* anonymize(text): the entities' offsets may lie outside the text or be
\* reversed; the code uses them as they come
AnonymizeRaw ==
    /\ phase = "ready"
    /\ \E tokens \in TokenTexts :
         \E found \in RegexFinds(tokens, MaxRaw) :
           \E ner_results \in SeqsUpTo(RawEntities(tokens), MaxRaw - NumFound(found)) :
               AnonymizeWith(Join(tokens),
                             detect_pii_regex(Join(tokens), found),
                             detect_pii_ner(Join(tokens), ner_results))

NextRaw == AnonymizeRaw \/ Restore

SpecRaw == Init /\ [][NextRaw]_vars

-----------------------------------------------------------------------------
(* Two anonymize calls on one PrivacyGuard instance, interleaved between  *)
(* the iterations of their substitution loops                              *)

CallIds == {1, 2}

CallTexts == { <<"ab", "c">>, <<"Ann", " ">> }

\* mutant: one dict of counters kept on the instance and used by every call
CountsScopeShared(c) == 1

\* the dict of counters call c works on: its own local
CountsScope(c) == c

IdleCall ==
    [pc |-> "idle", text |-> "", regex_matches |-> <<>>, ner_matches |-> <<>>,
     filtered_matches |-> <<>>, next |-> 1, mapping_table |-> <<>>,
     sanitized_parts |-> <<>>, current_idx |-> 0, result |-> <<>>]

InitCalls ==
    /\ phase = "ready"
    /\ text = ""
    /\ regex_matches = <<>>
    /\ ner_matches = <<>>
    /\ filtered_matches = <<>>
    /\ sanitized_parts = <<>>
    /\ mapping_table = <<>>
    /\ sanitized_text = ""
    /\ restored_text = ""
    /\ calls = [c \in CallIds |-> IdleCall]
    /\ counts = [c \in CallIds |-> <<>>]

\* call c enters anonymize: detection, sort, overlap filter, and the
\* initialisation of the substitution loop's locals
BeginCall(c) ==
    /\ calls[c].pc = "idle"
    /\ \E tokens \in CallTexts :
         \E ner_results \in SeqsUpTo(Entities(tokens), MaxCallSpans) :
            LET t == Join(tokens)
                regex == detect_pii_regex(t, [i \in 1..Len(RegexLabels) |-> <<>>])
                ner == detect_pii_ner(t, ner_results)
            IN  calls' = [calls EXCEPT ![c] =
                    [pc |-> "loop", text |-> t, regex_matches |-> regex,
                     ner_matches |-> ner,
                     filtered_matches |->
                         filtered_matches_of(all_matches_of(regex, ner)),
                     next |-> 1, mapping_table |-> InitLocals.mapping_table,
                     sanitized_parts |-> InitLocals.sanitized_parts,
                     current_idx |-> InitLocals.current_idx,
                     result |-> <<>>]]
    /\ counts' = [counts EXCEPT ![CountsScope(c)] = InitLocals.counts]
    /\ UNCHANGED <<phase, text, regex_matches, ner_matches, filtered_matches,
                   sanitized_parts, mapping_table, sanitized_text,
                   restored_text>>

\* call c runs one iteration of its substitution loop
LoopStep(c) ==
    /\ calls[c].pc = "loop"
    /\ calls[c].next <= Len(calls[c].filtered_matches)
    /\ LET f == calls[c]
           loc == SubstituteStep(f.text,
                      [mapping_table |-> f.mapping_table,
                       sanitized_parts |-> f.sanitized_parts,
                       current_idx |-> f.current_idx,
                       counts |-> counts[CountsScope(c)]],
                      f.filtered_matches[f.next])
       IN  /\ calls' = [calls EXCEPT ![c] =
                  [f EXCEPT !.next = f.next + 1,
                            !.mapping_table = loc.mapping_table,
                            !.sanitized_parts = loc.sanitized_parts,
                            !.current_idx = loc.current_idx]]
           /\ counts' = [counts EXCEPT ![CountsScope(c)] = loc.counts]
    /\ UNCHANGED <<phase, text, regex_matches, ner_matches, filtered_matches,
                   sanitized_parts, mapping_table, sanitized_text,
                   restored_text>>

\* call c leaves its loop, appends the remaining text and returns
ReturnCall(c) ==
    /\ calls[c].pc = "loop"
    /\ calls[c].next > Len(calls[c].filtered_matches)
    /\ LET f == calls[c]
           parts == FinalParts(f.text, f)
       IN  calls' = [calls EXCEPT ![c] =
               [f EXCEPT !.pc = "done", !.sanitized_parts = parts,
                         !.result = <<Join(parts), f.mapping_table>>]]
    /\ UNCHANGED <<phase, text, regex_matches, ner_matches, filtered_matches,
                   sanitized_parts, mapping_table, sanitized_text,
                   restored_text, counts>>

NextCalls == \E c \in CallIds : BeginCall(c) \/ LoopStep(c) \/ ReturnCall(c)

SpecCalls == InitCalls /\ [][NextCalls]_vars

-----------------------------------------------------------------------------
(* Properties of anonymize and restore *)

Range(f) == {f[i] : i \in DOMAIN f}

\* an anonymize call has returned
Anonymized == phase \in {"anonymized", "round_trip"}

\* the detectors' spans in the order anonymize concatenates them
Detected == regex_matches \o ner_matches

\* the placeholder the substitution loop emitted for the i-th accepted span
Emitted(i) == sanitized_parts[2 * i]

\* the k-th smallest element of a set of numbers
Nth(S, k) == CHOOSE x \in S : Cardinality({y \in S : y < x}) = k - 1

\* C1 (as stated): restore applied to what anonymize returned gives back
\* exactly the original text.
RoundTrip ==
    phase = "round_trip" => restored_text = text

\* C2: in the accepted sequence no span starts before the previous accepted
\* span ends: end[i-1] <= start[i] for every i.
NonOverlap ==
    Anonymized =>
        \A i \in 2..Len(filtered_matches) :
            End(filtered_matches[i - 1]) <= Start(filtered_matches[i])

NonOverlapWitness ==
    /\ Anonymized
    /\ Len(filtered_matches) = 2
    /\ Len(Detected) = 3
    /\ End(filtered_matches[1]) = Start(filtered_matches[2])

\* C3: the accepted sequence is the stable sort by start of (regex spans,
\* then NER spans), scanned left to right, a span being accepted iff its
\* start >= the end of the last accepted span before it; of two overlapping
\* spans detected alone the one starting leftmost is kept, and on equal
\* starts the one enumerated first, whatever their lengths.
GreedyTieBreak ==
    Anonymized =>
        LET n == Len(Detected)
            Before(i, j) ==
                \/ Start(Detected[i]) < Start(Detected[j])
                \/ Start(Detected[i]) = Start(Detected[j]) /\ i < j
            ordered ==
                [k \in 1..n |-> Detected[CHOOSE i \in 1..n :
                    Cardinality({j \in 1..n : Before(j, i)}) = k - 1]]
            LastEnd(acc, k) ==
                LET earlier == {j \in acc : j < k}
                IN  IF earlier = {} THEN -1
                    ELSE End(ordered[CHOOSE j \in earlier :
                                        \A h \in earlier : h <= j])
        IN  /\ \E acc \in SUBSET (1..n) :
                /\ \A k \in 1..n :
                      k \in acc <=> Start(ordered[k]) >= LastEnd(acc, k)
                /\ filtered_matches =
                      [k \in 1..Cardinality(acc) |-> ordered[Nth(acc, k)]]
            /\ n = 2 /\ Start(Detected[1]) < End(Detected[2])
                     /\ Start(Detected[2]) < End(Detected[1])
                 => filtered_matches =
                      IF Start(Detected[2]) < Start(Detected[1])
                      THEN <<Detected[2]>> ELSE <<Detected[1]>>

GreedyTieBreakWitness ==
    /\ Anonymized
    /\ Len(regex_matches) = 1 /\ Len(ner_matches) = 1
    /\ Start(regex_matches[1]) = Start(ner_matches[1])
    /\ End(regex_matches[1]) < End(ner_matches[1])
    /\ filtered_matches = regex_matches

\* C5: the accepted spans of one label get the suffixes 1, 2, 3, ... from
\* left to right: the i-th accepted span's placeholder is <LABEL_k>, k the
\* number of accepted spans up to it with its label, and of two accepted
\* spans with one label the earlier in the text has the smaller suffix.
OrderPreservation ==
    Anonymized =>
        LET Suffix(i) ==
                Cardinality({j \in 1..i :
                    Label(filtered_matches[j]) = Label(filtered_matches[i])})
        IN  /\ Len(sanitized_parts) = 2 * Len(filtered_matches) + 1
            /\ \A i \in 1..Len(filtered_matches) :
                  Emitted(i) = "<" \o Label(filtered_matches[i]) \o "_"
                                   \o ToString(Suffix(i)) \o ">"
            /\ \A i, j \in 1..Len(filtered_matches) :
                  /\ Label(filtered_matches[i]) = Label(filtered_matches[j])
                  /\ Suffix(i) < Suffix(j)
                  => Start(filtered_matches[i]) < Start(filtered_matches[j])

OrderPreservationWitness ==
    /\ Anonymized
    /\ Len(filtered_matches) = 3
    /\ Label(filtered_matches[1]) = Label(filtered_matches[3])
    /\ Label(filtered_matches[1]) # Label(filtered_matches[2])
    /\ Emitted(3) = "<PER_2>"

\* C6: the placeholders emitted are pairwise distinct, the table has one key
\* per accepted span, its keys are exactly the placeholders emitted into the
\* sanitized text, and each key maps to the content of the span it replaced.
TableExact ==
    Anonymized =>
        LET n == Len(filtered_matches)
        IN  /\ Len(sanitized_parts) = 2 * n + 1
            /\ sanitized_text = Join(sanitized_parts)
            /\ \A i, j \in 1..n : i # j => Emitted(i) # Emitted(j)
            /\ Len(mapping_table) = n
            /\ {mapping_table[i][1] : i \in 1..Len(mapping_table)}
                   = {Emitted(i) : i \in 1..n}
            /\ \A i \in 1..n :
                  \E k \in 1..Len(mapping_table) :
                      mapping_table[k] = <<Emitted(i), Content(filtered_matches[i])>>
            /\ \A i \in 1..n :
                  Content(filtered_matches[i]) =
                      SubSeq(text, Start(filtered_matches[i]) + 1,
                             End(filtered_matches[i]))

TableExactWitness ==
    /\ Anonymized
    /\ Len(mapping_table) = 3
    /\ Label(filtered_matches[1]) = Label(filtered_matches[2])
    /\ Content(filtered_matches[1]) = Content(filtered_matches[3])

\* C10 (as stated): a span fully contained in another detected span is
\* always rejected, whatever the enumeration order.
InnerAlwaysRejected ==
    Anonymized =>
        \A outer, inner \in Range(Detected) :
            /\ <<Start(outer), End(outer)>> # <<Start(inner), End(inner)>>
            /\ Start(outer) <= Start(inner)
            /\ End(inner) <= End(outer)
            => inner \notin Range(filtered_matches)

\* the first position of span m in the detectors' enumeration
FirstIndex(m) == Nth({i \in 1..Len(Detected) : Detected[i] = m}, 1)

\* C10 (amended): a contained span and its container are never both
\* accepted; the contained span is accepted only when it shares the
\* container's start and is enumerated first, or when an accepted span that
\* starts no later than the container overlaps the container and ends at or
\* before the contained span's start.
InnerRejectedUnlessOuterIs ==
    Anonymized =>
        \A outer, inner \in Range(Detected) :
            /\ <<Start(outer), End(outer)>> # <<Start(inner), End(inner)>>
            /\ Start(outer) <= Start(inner)
            /\ End(inner) <= End(outer)
            /\ inner \in Range(filtered_matches)
            => /\ outer \notin Range(filtered_matches)
               /\ \/ /\ Start(inner) = Start(outer)
                     /\ FirstIndex(inner) < FirstIndex(outer)
                  \/ \E x \in Range(filtered_matches) :
                        /\ Start(x) <= Start(outer)
                        /\ Start(outer) < End(x)
                        /\ End(x) <= Start(inner)

InnerRejectedWitness ==
    /\ Anonymized
    /\ \E outer, inner \in Range(Detected) :
          /\ Start(outer) < Start(inner)
          /\ End(inner) <= End(outer)
          /\ outer \notin Range(filtered_matches)
          /\ inner \in Range(filtered_matches)

-----------------------------------------------------------------------------
(* Properties of restore on a caller's text and table *)

\* the table's keys that match at offset i of s
KeysAt(s, table, i) == {k \in DictKeySet(table) : StartsWithAt(s, k, i)}

\* a single left-to-right scan of s that replaces each key where it stands
\* (the longest one, if several match) and copies the rest
RECURSIVE ScanFrom(_, _, _)
ScanFrom(s, table, i) ==
    LET hits == {j \in i..Len(s) : KeysAt(s, table, j) # {}}
    IN  IF hits = {} THEN SubSeq(s, i + 1, Len(s))
        ELSE LET j == Nth(hits, 1)
                 k == CHOOSE x \in KeysAt(s, table, j) :
                         \A y \in KeysAt(s, table, j) : Len(y) <= Len(x)
             IN  SubSeq(s, i + 1, j) \o DictGet(table, k)
                 \o ScanFrom(s, table, j + Len(k))

\* the table without the keys that do not occur in s
PresentOnly(s, table) ==
    SelectSeq(table, LAMBDA e : Occurs(s, e[1]))

\* C4: restore replaces a longer key before any shorter one, so that a
\* placeholder such as <PER_10> is replaced by its own content and not
\* damaged by the replacement of <PER_1>: when the contents hold no
\* placeholder text, the result is that of one scan replacing each
\* placeholder where it stands, and "<PER_1> met <PER_10>" with
\* {<PER_1>: Ann, <PER_10>: Bob} restores to "Ann met Bob".
PrefixSafety ==
    phase = "restored" =>
        LET ks == sorted_keys(mapping_table)
        IN  /\ Len(ks) = Len(mapping_table)
            /\ Range(ks) = DictKeySet(mapping_table)
            /\ \A i, j \in 1..Len(ks) : i < j => Len(ks[i]) >= Len(ks[j])
            /\ (\A e \in Range(mapping_table) : ~Occurs(e[2], "<"))
                 => restored_text = ScanFrom(sanitized_text, mapping_table, 0)
            /\ /\ sanitized_text = "<PER_1> met <PER_10>"
               /\ Range(mapping_table) =
                      {<<"<PER_1>", "Ann">>, <<"<PER_10>", "Bob">>}
               => restored_text = "Ann met Bob"

PrefixSafetyWitness ==
    /\ phase = "restored"
    /\ sanitized_text = "<PER_1> met <PER_10>"
    /\ mapping_table = << <<"<PER_1>", "Ann">>, <<"<PER_10>", "Bob">> >>
    /\ restored_text = "Ann met Bob"

\* C8 (as stated): restore with an empty table returns the text unchanged, a
\* placeholder of the text that has no entry in the table is still in the
\* output, and the keys that do not occur in the text change nothing.
KeyMismatchChangesNothing ==
    phase = "restored" =>
        /\ mapping_table = <<>> => restored_text = sanitized_text
        /\ \A p \in TableKeys :
              Occurs(sanitized_text, p) /\ p \notin DictKeySet(mapping_table)
              => Occurs(restored_text, p)
        /\ restored_text =
              restore(sanitized_text, PresentOnly(sanitized_text, mapping_table))

-----------------------------------------------------------------------------
(* Properties of the other specifications *)

\* the matches of ms with 0 <= start < end <= len(t)
WellFormedOnly(t, ms) ==
    SelectSeq(ms, LAMBDA m : 0 <= Start(m) /\ Start(m) < End(m) /\ End(m) <= Len(t))

\* C7 (as stated): a span with an offset outside [0, len(text)] or with
\* start >= end is rejected by the reconciliation: it is not accepted, gets
\* no placeholder and no table entry, and the result is the one anonymize
\* gives without it.
MalformedSpanRejected ==
    Anonymized =>
        /\ \A m \in Range(filtered_matches) :
              0 <= Start(m) /\ Start(m) < End(m) /\ End(m) <= Len(text)
        /\ LET r == anonymize(text, WellFormedOnly(text, regex_matches),
                                    WellFormedOnly(text, ner_matches))
           IN  /\ filtered_matches = r.filtered_matches
               /\ sanitized_text = r.sanitized_text
               /\ mapping_table = r.mapping_table

\* C9: whatever the interleaving of the calls on one instance, a call
\* returns the sanitized text and the table it returns when run alone on its
\* text and detector outputs; its numbering starts at 1 for every label and
\* its table has one entry per span it accepted, none from the other call.
CallLocalState ==
    \A c \in CallIds :
        calls[c].pc = "done" =>
            LET f == calls[c]
                alone == anonymize(f.text, f.regex_matches, f.ner_matches)
            IN  /\ f.result = <<alone.sanitized_text, alone.mapping_table>>
                /\ Len(f.result[2]) = Len(f.filtered_matches)
                /\ f.filtered_matches # <<>> =>
                      f.result[2][1][1] =
                          "<" \o Label(f.filtered_matches[1]) \o "_1>"

CallLocalStateWitness ==
    /\ calls[1].pc = "done" /\ calls[2].pc = "done"
    /\ Len(calls[1].filtered_matches) = 2
    /\ Len(calls[2].filtered_matches) = 2
    /\ calls[1].text # calls[2].text
    /\ calls[1].result[2][2][1] = "<PER_2>"
    /\ calls[2].result[2][2][1] = "<PER_2>"

=============================================================================
